---- MODULE Spec2Model ----
(***************************************************************************)
(* Moving-window rate limiter (thread and asyncio realizations) and the    *)
(* composite acquisition layer of limiter_context.py.                      *)
(*                                                                         *)
(* Spec     one limiter, in the realization chosen by `mode`, with join.   *)
(* SpecLive the same limiter, never failing nor joined, with a fair worker.*)
(* SpecCtx  limiters_context over the service locks _LIMITERS_LOCKS.       *)
(* SpecReg  get_limiters and get_per_user_limiter_context.                 *)
(***************************************************************************)
EXTENDS Integers, Sequences, FiniteSets, TLC

\* ---------------------------------------------------------------- bounds
\* the largest max_rate and the period_s of the limiter under check, the last clock value,
\* and the number of caller threads / tasks.
MaxRate == 2
Period == 2
MaxTime == 3
NumCallers == 2

Callers == 1..NumCallers
Times == 0..MaxTime
None == "None"

\* The Terminator() object join puts into the queue, told apart from every
\* timestamp.
Terminator == 0 - 1

\* The completion timestamps of a queue.
Completions(q) == SelectSeq(q, LAMBDA x : x # Terminator)

VARIABLES
    workers,         \* release threads / tasks started and not yet ended
    self_max_rate,   \* self._max_rate of the limiter under check
    mode,            \* "thread" (sync_rate_limiter) or "asyncio" (async_rate_limiter)
    now,             \* time.time()
    sema,            \* self._sema: free permits of the gate
    end_time_q,      \* self._end_time_q
    waiters,         \* self._waiters
    exc,             \* self._release_worker_exception
    release_thread,  \* self._release_thread / self._release_task
    wpc,             \* position of the release worker
    wnow,            \* the worker's cached `now`
    wake,            \* end of the worker's current sleep
    pc,              \* position of each caller
    timeout,         \* acquire's `timeout` argument (thread realization)
    acquired,        \* acquire's local `acquired` (thread realization)
    ts,              \* time.time() as read by release before the put
    broken_event,    \* self._broken_event.is_set() (asyncio realization)
    broken_fut_done, \* self._broken_evt_wait_fut.done()
    acquire_fut,     \* the caller's Task(self._sema.acquire()) (asyncio realization)
    sema_waiters,    \* asyncio.Semaphore._waiters: callers whose acquire is parked
    cancelling,      \* cancelled acquire tasks that were woken and have not run yet
    jpc,             \* position of the caller of join
    hits,            \* history: completions recorded per timestamp
    gate_delta,      \* history: permits the caller's current call took from the gate
    wait_delta,      \* history: net change of _waiters by the caller's current call
    lock_owner,      \* _LIMITERS_LOCKS[lock]: the threads owning the RLock ({} when free)
    lock_count,      \* _LIMITERS_LOCKS[lock]: its recursion level
    lsema,           \* limiter._sema of each limiter of the registry
    lqueue,          \* limiter._end_time_q of each: completions in cool-down
    tpc,             \* position of each thread in limiters_context
    stack,           \* the thread's active limiters_context calls, innermost last
    raising,         \* an exception is propagating in the thread
    gl_called,       \* the module global _GET_LIMITERS_CALLED ("unbound": never assigned)
    gl_results,      \* outcome of each get_limiters call so far
    global_tbl,      \* GLOBAL_LIMITERS: the <<kind, service>> pairs with a limit
    user_tbl,        \* PER_USER_LIMITERS: the <<kind, service>> pairs with a limit
    objects,         \* the RateLimiter objects constructed, in order of construction
    partials,        \* the partial(limiters_context, limiters=..., service=...) objects
    glob,            \* the `limiters` argument: kind -> service -> partial (0: no entry)
    dicts,           \* the return_value dicts get_per_user_limiter_context built
    cache,           \* _PER_USER_LIMITER_CACHE: key -> dict (0: no entry)
    cache_lock,      \* _PER_USER_LIMITER_LOCK: the threads owning it
    rpc,             \* position of each thread in get_per_user_limiter_context
    rkey,            \* its cache_key
    rret,            \* the dict its call returned (0: none)
    pu_calls         \* get_per_user_limiter_context calls made so far

lvars == <<mode, self_max_rate, workers, jpc, now, sema, end_time_q, waiters, exc,
           release_thread, wpc, wnow, wake, pc, timeout, acquired, ts, hits, gate_delta,
           wait_delta>>

avars == <<broken_event, broken_fut_done, acquire_fut, sema_waiters, cancelling>>

ctxvars == <<lock_owner, lock_count, lsema, lqueue, tpc, stack, raising>>

rvars == <<gl_called, gl_results, global_tbl, user_tbl, objects, partials, glob, dicts,
           cache, cache_lock, rpc, rkey, rret, pu_calls>>

cvars == <<ctxvars, rvars>>

vars == <<lvars, avars, cvars>>

\* ------------------------------------------------------------ construction
\* RateLimiter.__init__ of either realization.
LimiterInit ==
    /\ now = 0
    /\ self_max_rate \in 1..MaxRate
    /\ sema = self_max_rate
    /\ end_time_q = <<>>
    /\ waiters = 0
    /\ exc = None
    /\ release_thread = None
    /\ wpc = "none"
    /\ wnow = 0
    /\ wake = 0
    /\ pc = [c \in Callers |-> "idle"]
    /\ timeout = [c \in Callers |-> FALSE]
    /\ acquired = [c \in Callers |-> FALSE]
    /\ ts = [c \in Callers |-> 0]
    /\ hits = [t \in Times |-> 0]
    /\ gate_delta = [c \in Callers |-> 0]
    /\ wait_delta = [c \in Callers |-> 0]
    /\ broken_event = FALSE
    /\ broken_fut_done = FALSE
    /\ acquire_fut = [c \in Callers |-> "none"]
    /\ sema_waiters = <<>>
    /\ cancelling = 0
    /\ jpc = "idle"
    /\ workers = 0

\* The is_broken property of either realization.
is_broken == IF mode = "thread" THEN exc # None ELSE broken_event

\* The clock; it is read by release and by the worker.
Tick ==
    /\ now < MaxTime
    /\ UNCHANGED cvars
    /\ now' = now + 1
    /\ UNCHANGED <<mode, self_max_rate, workers, jpc, sema, end_time_q, waiters, exc,
                   release_thread, wpc, wnow, wake, pc, timeout, acquired, ts, hits,
                   gate_delta, wait_delta>>
    /\ UNCHANGED avars

\* ------------------------------------------------- thread realization: acquire
\* acquire(timeout): `assert not self.is_broken`.
Acquire(c, t) ==
    /\ mode = "thread"
    /\ UNCHANGED cvars
    /\ pc[c] = "idle"
    /\ timeout' = [timeout EXCEPT ![c] = t /\ ~is_broken]
    /\ pc' = [pc EXCEPT ![c] = IF is_broken THEN "assert_error" ELSE "lock"]
    /\ UNCHANGED <<mode, self_max_rate, workers, jpc, now, sema, end_time_q, waiters, exc,
                   release_thread, wpc, wnow, wake, acquired, ts, hits, gate_delta,
                   wait_delta>>
    /\ UNCHANGED avars

\* Variant of AcquireLocked that starts a release thread without looking at
\* self._release_thread.
AcquireLockedAlwaysStart(c) ==
    /\ mode = "thread"
    /\ UNCHANGED cvars
    /\ pc[c] = "lock"
    /\ release_thread' = "thread" /\ wpc' = "wait" /\ workers' = workers + 1
    /\ waiters' = waiters + 1
    /\ wait_delta' = [wait_delta EXCEPT ![c] = @ + 1]
    /\ acquired' = [acquired EXCEPT ![c] = FALSE]
    /\ pc' = [pc EXCEPT ![c] = "loop"]
    /\ UNCHANGED <<mode, self_max_rate, jpc, now, sema, end_time_q, exc, wnow, wake,
                   timeout, ts, hits, gate_delta>>
    /\ UNCHANGED avars

\* `with self._lock:` start the release thread if there is none, _waiters += 1.
AcquireLocked(c) ==
    /\ mode = "thread"
    /\ UNCHANGED cvars
    /\ pc[c] = "lock"
    /\ IF release_thread = None
       THEN release_thread' = "thread" /\ wpc' = "wait" /\ workers' = workers + 1
       ELSE UNCHANGED <<release_thread, wpc, workers>>
    /\ waiters' = waiters + 1
    /\ wait_delta' = [wait_delta EXCEPT ![c] = @ + 1]
    /\ acquired' = [acquired EXCEPT ![c] = FALSE]
    /\ pc' = [pc EXCEPT ![c] = "loop"]
    /\ UNCHANGED <<mode, self_max_rate, jpc, now, sema, end_time_q, exc, wnow, wake,
                   timeout, ts, hits, gate_delta>>
    /\ UNCHANGED avars

\* `while not acquired and not self._release_worker_exception:`; leaving the
\* loop falls through to the finally block and the call returns None.
AcquireLoop(c) ==
    /\ mode = "thread"
    /\ UNCHANGED cvars
    /\ pc[c] = "loop"
    /\ pc' = [pc EXCEPT ![c] = IF ~acquired[c] /\ exc = None THEN "sema" ELSE "finally"]
    /\ UNCHANGED <<mode, self_max_rate, workers, jpc, now, sema, end_time_q, waiters, exc,
                   release_thread, wpc, wnow, wake, timeout, acquired, ts, hits, gate_delta,
                   wait_delta>>
    /\ UNCHANGED avars

\* Variant of SemaAcquire that returns True without taking a permit of the gate.
SemaAcquireNoTake(c) ==
    /\ mode = "thread"
    /\ UNCHANGED cvars
    /\ pc[c] = "sema"
    /\ sema > 0
    /\ sema' = sema
    /\ gate_delta' = [gate_delta EXCEPT ![c] = @ + 1]
    /\ acquired' = [acquired EXCEPT ![c] = TRUE]
    /\ pc' = [pc EXCEPT ![c] = "finally"]
    /\ UNCHANGED <<mode, self_max_rate, workers, jpc, now, end_time_q, waiters, exc,
                   release_thread, wpc, wnow, wake, timeout, ts, hits, wait_delta>>
    /\ UNCHANGED avars

\* `acquired = self._sema.acquire(timeout=sleep_s)` returning True; the loop
\* test `not acquired` then ends the loop.
SemaAcquire(c) ==
    /\ mode = "thread"
    /\ UNCHANGED cvars
    /\ pc[c] = "sema"
    /\ sema > 0
    /\ sema' = sema - 1
    /\ gate_delta' = [gate_delta EXCEPT ![c] = @ + 1]
    /\ acquired' = [acquired EXCEPT ![c] = TRUE]
    /\ pc' = [pc EXCEPT ![c] = "finally"]
    /\ UNCHANGED <<mode, self_max_rate, workers, jpc, now, end_time_q, waiters, exc,
                   release_thread, wpc, wnow, wake, timeout, ts, hits, wait_delta>>
    /\ UNCHANGED avars

\* The same call returning False after sleep_s (= timeout or 10) without a free
\* permit; `if not acquired and timeout: raise TimeoutError`.
SemaTimeout(c) ==
    /\ mode = "thread"
    /\ UNCHANGED cvars
    /\ pc[c] = "sema"
    /\ sema = 0
    /\ pc' = [pc EXCEPT ![c] = IF timeout[c] THEN "finally_timeout" ELSE "loop"]
    /\ UNCHANGED <<mode, self_max_rate, workers, jpc, now, sema, end_time_q, waiters, exc,
                   release_thread, wpc, wnow, wake, timeout, acquired, ts, hits, gate_delta,
                   wait_delta>>
    /\ UNCHANGED avars

\* Variant of AcquireFinally without the `finally:` clause: the waiter count is
\* restored only when the call returns normally.
AcquireFinallyLeaky(c) ==
    /\ mode = "thread"
    /\ UNCHANGED cvars
    /\ pc[c] \in {"finally", "finally_timeout"}
    /\ IF pc[c] = "finally"
       THEN /\ waiters' = waiters - 1
            /\ wait_delta' = [wait_delta EXCEPT ![c] = @ - 1]
       ELSE UNCHANGED <<waiters, wait_delta>>
    /\ pc' = [pc EXCEPT ![c] = IF pc[c] = "finally" THEN "body" ELSE "timeout_error"]
    /\ timeout' = [timeout EXCEPT ![c] = FALSE]
    /\ UNCHANGED <<mode, self_max_rate, workers, jpc, now, sema, end_time_q, exc,
                   release_thread, wpc, wnow, wake, acquired, ts, hits, gate_delta>>
    /\ UNCHANGED avars

\* `finally: with self._lock: self._waiters -= 1`, then the call returns or the
\* TimeoutError propagates.
AcquireFinally(c) ==
    /\ mode = "thread"
    /\ UNCHANGED cvars
    /\ pc[c] \in {"finally", "finally_timeout"}
    /\ waiters' = waiters - 1
    /\ wait_delta' = [wait_delta EXCEPT ![c] = @ - 1]
    /\ pc' = [pc EXCEPT ![c] = IF pc[c] = "finally" THEN "body" ELSE "timeout_error"]
    /\ timeout' = [timeout EXCEPT ![c] = FALSE]
    /\ UNCHANGED <<mode, self_max_rate, workers, jpc, now, sema, end_time_q, exc,
                   release_thread, wpc, wnow, wake, acquired, ts, hits, gate_delta>>
    /\ UNCHANGED avars

\* The caller handles the exception an acquire or release raised.
Raised(c) ==
    /\ pc[c] \in {"assert_error", "timeout_error", "broken_error", "cancelled_error"}
    /\ UNCHANGED cvars
    /\ pc' = [pc EXCEPT ![c] = "idle"]
    /\ acquired' = [acquired EXCEPT ![c] = FALSE]
    /\ timeout' = [timeout EXCEPT ![c] = FALSE]
    /\ gate_delta' = [gate_delta EXCEPT ![c] = 0]
    /\ wait_delta' = [wait_delta EXCEPT ![c] = 0]
    /\ UNCHANGED <<mode, self_max_rate, workers, jpc, now, sema, end_time_q, waiters, exc,
                   release_thread, wpc, wnow, wake, ts, hits>>
    /\ UNCHANGED avars

\* ------------------------------------------------- thread realization: release
\* release(): `assert not self.is_broken`, then time.time() is evaluated.
Release(c) ==
    /\ mode = "thread"
    /\ UNCHANGED cvars
    /\ pc[c] = "body"
    /\ IF is_broken
       THEN pc' = [pc EXCEPT ![c] = "assert_error"] /\ UNCHANGED ts
       ELSE pc' = [pc EXCEPT ![c] = "put"] /\ ts' = [ts EXCEPT ![c] = now]
    /\ gate_delta' = [gate_delta EXCEPT ![c] = 0]
    /\ wait_delta' = [wait_delta EXCEPT ![c] = 0]
    /\ UNCHANGED <<mode, self_max_rate, workers, jpc, now, sema, end_time_q, waiters, exc,
                   release_thread, wpc, wnow, wake, timeout, acquired, hits>>
    /\ UNCHANGED avars

\* Variant of ReleasePut that also frees the gate at once instead of leaving that
\* to the worker.
ReleasePutAndFree(c) ==
    /\ mode = "thread"
    /\ UNCHANGED cvars
    /\ pc[c] = "put"
    /\ end_time_q' = Append(end_time_q, ts[c])
    /\ sema' = sema + 1
    /\ hits' = [hits EXCEPT ![ts[c]] = @ + 1]
    /\ acquired' = [acquired EXCEPT ![c] = FALSE]
    /\ ts' = [ts EXCEPT ![c] = 0]
    /\ pc' = [pc EXCEPT ![c] = "idle"]
    /\ UNCHANGED <<mode, self_max_rate, workers, jpc, now, waiters, exc, release_thread,
                   wpc, wnow, wake, timeout, gate_delta, wait_delta>>
    /\ UNCHANGED avars

\* `self._end_time_q.put(...)` of the value read.
ReleasePut(c) ==
    /\ mode = "thread"
    /\ UNCHANGED cvars
    /\ pc[c] = "put"
    /\ end_time_q' = Append(end_time_q, ts[c])
    /\ hits' = [hits EXCEPT ![ts[c]] = @ + 1]
    /\ acquired' = [acquired EXCEPT ![c] = FALSE]
    /\ ts' = [ts EXCEPT ![c] = 0]
    /\ pc' = [pc EXCEPT ![c] = "idle"]
    /\ UNCHANGED <<mode, self_max_rate, workers, jpc, now, sema, waiters, exc,
                   release_thread, wpc, wnow, wake, timeout, gate_delta, wait_delta>>
    /\ UNCHANGED avars

\* ------------------------------------- thread realization: release worker
\* `while not len(self._end_time_q.queue): not_empty.wait()`.
WorkerWait ==
    /\ mode = "thread"
    /\ UNCHANGED cvars
    /\ wpc = "wait"
    /\ Len(end_time_q) > 0
    /\ wpc' = "outer"
    /\ UNCHANGED <<mode, self_max_rate, workers, jpc, now, sema, end_time_q, waiters, exc,
                   release_thread, wnow, wake, pc, timeout, acquired, ts, hits, gate_delta,
                   wait_delta>>
    /\ UNCHANGED avars

\* `while len(queue): now = time.time(); sleep_s = 0`.
WorkerOuter ==
    /\ mode = "thread"
    /\ UNCHANGED cvars
    /\ wpc = "outer"
    /\ IF Len(end_time_q) = 0
       THEN wpc' = "wait" /\ UNCHANGED wnow
       ELSE wpc' = "inner" /\ wnow' = now
    /\ UNCHANGED <<mode, self_max_rate, workers, jpc, now, sema, end_time_q, waiters, exc,
                   release_thread, wake, pc, timeout, acquired, ts, hits, gate_delta,
                   wait_delta>>
    /\ UNCHANGED avars

\* Variant of Expired that lets a completion go one time unit before its period
\* has elapsed.
ExpiredEarly(cached_now, oldest_finished_ts) == cached_now - oldest_finished_ts >= Period - 1

\* `time_since_finished_ts >= self._period_s` of the release thread.
Expired(cached_now, oldest_finished_ts) == cached_now - oldest_finished_ts >= Period

\* The inner `while len(queue)`: return at a Terminator; pop the head when it
\* expired (get, task_done), else sleep_s = period - time_since_finished;
\* `time.sleep(sleep_s)` follows.
WorkerInner ==
    /\ mode = "thread"
    /\ UNCHANGED cvars
    /\ wpc = "inner"
    /\ IF Len(end_time_q) = 0
       THEN /\ wpc' = "sleep"
            /\ wake' = now
            /\ UNCHANGED end_time_q
       ELSE IF Head(end_time_q) = Terminator
            THEN /\ wpc' = "finally"
                 /\ UNCHANGED <<wake, end_time_q>>
       ELSE IF Expired(wnow, Head(end_time_q))
            THEN /\ end_time_q' = Tail(end_time_q)
                 /\ wpc' = "release"
                 /\ UNCHANGED wake
            ELSE /\ wpc' = "sleep"
                 /\ wake' = now + (Period - (wnow - Head(end_time_q)))
                 /\ UNCHANGED end_time_q
    /\ UNCHANGED <<mode, self_max_rate, workers, jpc, now, sema, waiters, exc,
                   release_thread, wnow, pc, timeout, acquired, ts, hits, gate_delta,
                   wait_delta>>
    /\ UNCHANGED avars

\* `self._sema.release()` for the completion popped.
WorkerRelease ==
    /\ mode = "thread"
    /\ UNCHANGED cvars
    /\ wpc = "release"
    /\ sema' = sema + 1
    /\ wpc' = "inner"
    /\ UNCHANGED <<mode, self_max_rate, workers, jpc, now, end_time_q, waiters, exc,
                   release_thread, wnow, wake, pc, timeout, acquired, ts, hits, gate_delta,
                   wait_delta>>
    /\ UNCHANGED avars

\* `time.sleep(sleep_s)` returns.
WorkerSleep ==
    /\ mode = "thread"
    /\ UNCHANGED cvars
    /\ wpc = "sleep"
    /\ now >= wake
    /\ wpc' = "outer"
    /\ wnow' = 0
    /\ wake' = 0
    /\ UNCHANGED <<mode, self_max_rate, workers, jpc, now, sema, end_time_q, waiters, exc,
                   release_thread, pc, timeout, acquired, ts, hits, gate_delta, wait_delta>>
    /\ UNCHANGED avars

\* "if either of these fail, the ratelimiter will be marked as broken": the get
\* of an expired head or the gate release raises; `except BaseException as e:
\* self._release_worker_exception = e`.
WorkerFail ==
    /\ mode = "thread"
    /\ UNCHANGED cvars
    /\ \/ wpc = "release"
       \/ /\ wpc = "inner"
          /\ Len(end_time_q) > 0
          /\ Head(end_time_q) # Terminator
          /\ Expired(wnow, Head(end_time_q))
    /\ exc' = IF exc = None THEN "E1" ELSE "E2"
    /\ wpc' = "finally"
    /\ UNCHANGED <<mode, self_max_rate, workers, jpc, now, sema, end_time_q, waiters,
                   release_thread, wnow, wake, pc, timeout, acquired, ts, hits, gate_delta,
                   wait_delta>>
    /\ UNCHANGED avars

\* `finally: self._release_thread = None`.
WorkerFinally ==
    /\ mode = "thread"
    /\ UNCHANGED cvars
    /\ wpc = "finally"
    /\ release_thread' = None
    /\ workers' = workers - 1
    /\ wpc' = "none"
    /\ wnow' = 0
    /\ wake' = 0
    /\ UNCHANGED <<mode, self_max_rate, jpc, now, sema, end_time_q, waiters, exc, pc,
                   timeout, acquired, ts, hits, gate_delta, wait_delta>>
    /\ UNCHANGED avars

ThreadNext ==
    \/ \E c \in Callers, t \in BOOLEAN : Acquire(c, t)
    \/ \E c \in Callers : AcquireLocked(c)
    \/ \E c \in Callers : AcquireLoop(c)
    \/ \E c \in Callers : SemaAcquire(c)
    \/ \E c \in Callers : SemaTimeout(c)
    \/ \E c \in Callers : AcquireFinally(c)
    \/ \E c \in Callers : Release(c)
    \/ \E c \in Callers : ReleasePut(c)
    \/ WorkerWait
    \/ WorkerOuter
    \/ WorkerInner
    \/ WorkerRelease
    \/ WorkerSleep
    \/ WorkerFail
    \/ WorkerFinally

\* ------------------------------------------------ asyncio realization: gate
\* asyncio.Semaphore._wake_up_next after `n` calls of release(): the first
\* parked acquire futures get their result.
RECURSIVE WakeUpNext(_, _, _)
WakeUpNext(n, sw, af) ==
    IF n = 0 \/ sw = <<>> THEN <<sw, af>>
    ELSE WakeUpNext(n - 1, Tail(sw), [af EXCEPT ![Head(sw)] = "woken"])

\* The sequence without caller c (a cancelled future is skipped by _wake_up_next).
RECURSIVE Without(_, _)
Without(sw, c) ==
    IF sw = <<>> THEN <<>>
    ELSE IF Head(sw) = c THEN Without(Tail(sw), c)
    ELSE <<Head(sw)>> \o Without(Tail(sw), c)

\* __aenter__ up to `await asyncio.wait(...)`: _waiters += 1 and the acquire
\* task is created by CancellingTaskCtx.
AEnter(c) ==
    /\ mode = "asyncio"
    /\ UNCHANGED cvars
    /\ pc[c] = "idle"
    /\ waiters' = waiters + 1
    /\ acquire_fut' = [acquire_fut EXCEPT ![c] = "new"]
    /\ wait_delta' = [wait_delta EXCEPT ![c] = @ + 1]
    /\ pc' = [pc EXCEPT ![c] = "wait"]
    /\ UNCHANGED <<mode, self_max_rate, workers, jpc, now, sema, end_time_q, exc,
                   release_thread, wpc, wnow, wake, timeout, acquired, ts, hits,
                   gate_delta>>
    /\ UNCHANGED <<broken_event, broken_fut_done, sema_waiters, cancelling>>

\* One step of the task running Semaphore.acquire(): `while self._value <= 0:`
\* park on a new future, else `self._value -= 1; return True`.
SemaAcquireTask(c) ==
    /\ mode = "asyncio"
    /\ UNCHANGED cvars
    /\ acquire_fut[c] \in {"new", "woken"}
    /\ IF sema <= 0
       THEN /\ sema_waiters' = Append(sema_waiters, c)
            /\ acquire_fut' = [acquire_fut EXCEPT ![c] = "parked"]
            /\ UNCHANGED <<sema, gate_delta>>
       ELSE /\ sema' = sema - 1
            /\ acquire_fut' = [acquire_fut EXCEPT ![c] = "done"]
            /\ gate_delta' = [gate_delta EXCEPT ![c] = @ + 1]
            /\ UNCHANGED sema_waiters
    /\ UNCHANGED <<mode, self_max_rate, workers, jpc, now, end_time_q, waiters, exc,
                   release_thread, wpc, wnow, wake, pc, timeout, acquired, ts, hits,
                   wait_delta>>
    /\ UNCHANGED <<broken_event, broken_fut_done, cancelling>>

\* The step of an acquire task that was cancelled after its future got a result:
\* `except: fut.cancel(); if self._value > 0 and not fut.cancelled():
\* self._wake_up_next(); raise`.
SemaAcquireCancelled ==
    /\ mode = "asyncio"
    /\ UNCHANGED cvars
    /\ cancelling > 0
    /\ cancelling' = cancelling - 1
    /\ LET w == WakeUpNext(IF sema > 0 THEN 1 ELSE 0, sema_waiters, acquire_fut)
       IN  sema_waiters' = w[1] /\ acquire_fut' = w[2]
    /\ UNCHANGED <<mode, self_max_rate, workers, jpc, now, sema, end_time_q, waiters, exc,
                   release_thread, wpc, wnow, wake, pc, timeout, acquired, ts, hits,
                   gate_delta, wait_delta>>
    /\ UNCHANGED <<broken_event, broken_fut_done>>

\* __aenter__ resumes from asyncio.wait (FIRST_COMPLETED): `if
\* self._broken_evt_wait_fut.done(): raise self.Error(...)`; leaving the with
\* block cancels the acquire task when it is not done; `finally: _waiters -= 1`.
AResume(c) ==
    /\ mode = "asyncio"
    /\ UNCHANGED cvars
    /\ pc[c] = "wait"
    /\ broken_fut_done \/ acquire_fut[c] = "done"
    /\ waiters' = waiters - 1
    /\ wait_delta' = [wait_delta EXCEPT ![c] = @ - 1]
    /\ IF broken_fut_done
       THEN /\ pc' = [pc EXCEPT ![c] = "broken_error"]
            /\ acquire_fut' = [acquire_fut EXCEPT ![c] = "none"]
            /\ sema_waiters' = Without(sema_waiters, c)
            /\ cancelling' = IF acquire_fut[c] = "woken" THEN cancelling + 1 ELSE cancelling
       ELSE /\ pc' = [pc EXCEPT ![c] = "body"]
            /\ UNCHANGED <<acquire_fut, sema_waiters, cancelling>>
    /\ UNCHANGED <<mode, self_max_rate, workers, jpc, now, sema, end_time_q, exc,
                   release_thread, wpc, wnow, wake, timeout, acquired, ts, hits,
                   gate_delta>>
    /\ UNCHANGED <<broken_event, broken_fut_done>>

\* The task of a caller suspended in __aenter__ is cancelled (for example by an
\* enclosing wait_for): CancelledError is raised at `await asyncio.wait(...)`,
\* CancellingTaskCtx.__exit__ cancels the acquire task `if not
\* self._task.done()`, and `finally: self._waiters -= 1`. A finished acquire
\* task has taken its permit and is left as it is.
ACancel(c) ==
    /\ mode = "asyncio"
    /\ UNCHANGED cvars
    /\ pc[c] = "wait"
    /\ waiters' = waiters - 1
    /\ wait_delta' = [wait_delta EXCEPT ![c] = @ - 1]
    /\ pc' = [pc EXCEPT ![c] = "cancelled_error"]
    /\ acquire_fut' = [acquire_fut EXCEPT ![c] = "none"]
    /\ sema_waiters' = Without(sema_waiters, c)
    /\ cancelling' = IF acquire_fut[c] = "woken" THEN cancelling + 1 ELSE cancelling
    /\ UNCHANGED <<mode, self_max_rate, workers, jpc, now, sema, end_time_q, exc,
                   release_thread, wpc, wnow, wake, timeout, acquired, ts, hits,
                   gate_delta>>
    /\ UNCHANGED <<broken_event, broken_fut_done>>

\* Variant of AExit that records the completion and never starts the release
\* task.
AExitNoTask(c) ==
    /\ mode = "asyncio"
    /\ UNCHANGED cvars
    /\ pc[c] = "body"
    /\ end_time_q' = Append(end_time_q, now)
    /\ hits' = [hits EXCEPT ![now] = @ + 1]
    /\ acquire_fut' = [acquire_fut EXCEPT ![c] = "none"]
    /\ gate_delta' = [gate_delta EXCEPT ![c] = 0]
    /\ pc' = [pc EXCEPT ![c] = "idle"]
    /\ UNCHANGED <<mode, self_max_rate, workers, jpc, now, sema, waiters, exc,
                   release_thread, wpc, wnow, wake, timeout, acquired, ts, wait_delta>>
    /\ UNCHANGED <<broken_event, broken_fut_done, sema_waiters, cancelling>>

\* __aexit__: append time.time(), start the release task when there is none.
AExit(c) ==
    /\ mode = "asyncio"
    /\ UNCHANGED cvars
    /\ pc[c] = "body"
    /\ end_time_q' = Append(end_time_q, now)
    /\ hits' = [hits EXCEPT ![now] = @ + 1]
    /\ IF release_thread = None
       THEN release_thread' = "task" /\ wpc' = "new" /\ workers' = workers + 1
       ELSE UNCHANGED <<release_thread, wpc, workers>>
    /\ acquire_fut' = [acquire_fut EXCEPT ![c] = "none"]
    /\ gate_delta' = [gate_delta EXCEPT ![c] = 0]
    /\ pc' = [pc EXCEPT ![c] = "idle"]
    /\ UNCHANGED <<mode, self_max_rate, jpc, now, sema, waiters, exc, wnow, wake, timeout,
                   acquired, ts, wait_delta>>
    /\ UNCHANGED <<broken_event, broken_fut_done, sema_waiters, cancelling>>

\* ------------------------------------- asyncio realization: release worker
\* _release_worker(sleep_s) up to its first `await asyncio.sleep(sleep_s)`.
AWorkerStart ==
    /\ mode = "asyncio"
    /\ UNCHANGED cvars
    /\ wpc = "new"
    /\ wpc' = "sleep"
    /\ wake' = now + Period
    /\ UNCHANGED <<mode, self_max_rate, workers, jpc, now, sema, end_time_q, waiters, exc,
                   release_thread, wnow, pc, timeout, acquired, ts, hits, gate_delta,
                   wait_delta>>
    /\ UNCHANGED avars

\* `time_since_finished_ts >= self._period_s` of _release_worker.
AExpired(t, oldest_finished_ts) == t - oldest_finished_ts >= Period

\* How many completions at the head of the queue the loop pops with `now` = t.
RECURSIVE ExpiredPrefix(_, _)
ExpiredPrefix(q, t) ==
    IF q = <<>> \/ ~AExpired(t, Head(q)) THEN 0
    ELSE 1 + ExpiredPrefix(Tail(q), t)

\* The worker wakes from its sleep: `now = time.time()`, pop every expired head
\* and release the gate once for each; with the queue empty the task ends
\* (`finally: self._release_task = None`; a join awaiting the task resumes),
\* else it sleeps until the head expires.
AWorkerRun ==
    /\ mode = "asyncio"
    /\ UNCHANGED cvars
    /\ wpc = "sleep"
    /\ now >= wake
    /\ LET k == ExpiredPrefix(end_time_q, now)
           rest == SubSeq(end_time_q, k + 1, Len(end_time_q))
           w == WakeUpNext(k, sema_waiters, acquire_fut)
       IN  /\ end_time_q' = rest
           /\ sema' = sema + k
           /\ sema_waiters' = w[1]
           /\ acquire_fut' = w[2]
           /\ IF rest = <<>>
              THEN /\ wpc' = "none" /\ release_thread' = None /\ wake' = 0
                   /\ workers' = workers - 1
                   /\ jpc' = IF jpc = "task" THEN "resume" ELSE jpc
              ELSE /\ wpc' = "sleep"
                   /\ wake' = now + (Period - (now - Head(rest)))
                   /\ UNCHANGED <<release_thread, jpc, workers>>
    /\ UNCHANGED <<mode, self_max_rate, now, waiters, exc, wnow, pc, timeout, acquired, ts,
                   hits, gate_delta, wait_delta>>
    /\ UNCHANGED <<broken_event, broken_fut_done, cancelling>>

\* The same step with the j-th popleft (popped = FALSE) or the j-th gate release
\* (popped = TRUE) raising: `self._release_worker_exception = e;
\* self._broken_event.set(); raise; finally: self._release_task = None`; the
\* exception is raised in a join awaiting the task.
AWorkerFail(j, popped) ==
    /\ mode = "asyncio"
    /\ UNCHANGED cvars
    /\ wpc = "sleep"
    /\ now >= wake
    /\ j \in 1..ExpiredPrefix(end_time_q, now)
    /\ LET gone == IF popped THEN j ELSE j - 1
           w == WakeUpNext(j - 1, sema_waiters, acquire_fut)
       IN  /\ end_time_q' = SubSeq(end_time_q, gone + 1, Len(end_time_q))
           /\ sema' = sema + (j - 1)
           /\ sema_waiters' = w[1]
           /\ acquire_fut' = w[2]
    /\ exc' = IF exc = None THEN "E1" ELSE "E2"
    /\ broken_event' = TRUE
    /\ release_thread' = None
    /\ workers' = workers - 1
    /\ wpc' = "none"
    /\ wake' = 0
    /\ jpc' = IF jpc = "task" THEN "join_error" ELSE jpc
    /\ UNCHANGED <<mode, self_max_rate, now, waiters, wnow, pc, timeout, acquired, ts, hits,
                   gate_delta, wait_delta>>
    /\ UNCHANGED <<broken_fut_done, cancelling>>

\* The task of `self._broken_event.wait()` finishes once the event is set.
BrokenEvtWaitFut ==
    /\ mode = "asyncio"
    /\ UNCHANGED cvars
    /\ broken_event
    /\ ~broken_fut_done
    /\ broken_fut_done' = TRUE
    /\ UNCHANGED lvars
    /\ UNCHANGED <<broken_event, acquire_fut, sema_waiters, cancelling>>

AsyncNext ==
    \/ \E c \in Callers : AEnter(c)
    \/ \E c \in Callers : SemaAcquireTask(c)
    \/ SemaAcquireCancelled
    \/ \E c \in Callers : AResume(c)
    \/ \E c \in Callers : AExit(c)
    \/ AWorkerStart
    \/ AWorkerRun
    \/ \E j \in 1..MaxRate, popped \in BOOLEAN : AWorkerFail(j, popped)
    \/ BrokenEvtWaitFut

\* ------------------------------------------------- composite acquisition
\* limiter_context.py: the services with a lock in _LIMITERS_LOCKS, the limiters
\* of the registry and the contexts (partial(limiters_context, limiters=...,
\* service=...)) built from them: a global and a per-user request limiter and a
\* quota limiter for gmail, a request limiter for calendar.
Services == {"gmail", "calendar"}

Limiters == {"gmail_request", "gmail_user_request", "gmail_quota", "calendar_request"}

\* limiter.max_rate of each.
max_rate ==
    [l \in Limiters |-> IF l = "gmail_request" THEN 2 ELSE 1]

Contexts ==
    [request_gmail |-> [service |-> "gmail", kind |-> "request",
                        limiters |-> <<"gmail_request", "gmail_user_request">>],
     quota_gmail |-> [service |-> "gmail", kind |-> "quota",
                      limiters |-> <<"gmail_quota">>],
     request_calendar |-> [service |-> "calendar", kind |-> "request",
                           limiters |-> <<"calendar_request">>]]

ContextNames == DOMAIN Contexts

NumThreads == 2
Threads == 1..NumThreads

\* The largest `num` a caller passes.
MaxNum == 2

CtxInit ==
    /\ lock_owner = [s \in Services |-> {}]
    /\ lock_count = [s \in Services |-> 0]
    /\ lsema = [l \in Limiters |-> max_rate[l]]
    /\ lqueue = [l \in Limiters |-> 0]
    /\ tpc = [t \in Threads |-> "idle"]
    /\ stack = [t \in Threads |-> <<>>]
    /\ raising = [t \in Threads |-> FALSE]

\* Variant of LimitersLock with one lock for all services.
SharedLock(service) == "gmail"

\* `_LIMITERS_LOCKS[service]`.
LimitersLock(service) == service

\* The innermost limiters_context call of thread t.
Top(t) == stack[t][Len(stack[t])]

Service(t) == Contexts[Top(t).ctx].service

\* The limiter the loops of limiters_context are at.
NextLimiter(t) == Contexts[Top(t).ctx].limiters[Top(t).i]

ReplaceTop(t, frame) == [stack EXCEPT ![t] = SubSeq(@, 1, Len(@) - 1) \o <<frame>>]

\* The precondition `num <= limiter.max_rate` for every member.
NumFits(ctx, num) ==
    \A k \in 1..Len(Contexts[ctx].limiters) : num <= max_rate[Contexts[ctx].limiters[k]]

\* A thread calls ctx(num): from its top level, or for the quota context of the
\* service inside the protected section of its request context.
CtxCall(t, ctx, num) ==
    /\ mode = "composite"
    /\ \/ tpc[t] = "idle" /\ stack[t] = <<>>
       \/ /\ tpc[t] = "body"
          /\ Len(stack[t]) = 1
          /\ Contexts[Top(t).ctx].kind = "request"
          /\ Contexts[ctx].kind = "quota"
          /\ Contexts[ctx].service = Service(t)
    /\ stack' = [stack EXCEPT ![t] = Append(@, [ctx |-> ctx, num |-> num, i |-> 1, j |-> 0,
                                                   entered |-> <<>>])]
    /\ tpc' = [tpc EXCEPT ![t] = "lock"]
    /\ UNCHANGED <<lock_owner, lock_count, lsema, lqueue, raising>>
    /\ UNCHANGED <<lvars, avars, rvars>>

\* Variant of CtxLock that does not wait for the lock's owner.
CtxLockNoExclusion(t) ==
    /\ mode = "composite"
    /\ tpc[t] = "lock"
    /\ lock_owner' = [lock_owner EXCEPT ![LimitersLock(Service(t))] = {t}]
    /\ lock_count' = [lock_count EXCEPT ![LimitersLock(Service(t))] = @ + 1]
    /\ tpc' = [tpc EXCEPT ![t] = "acquire"]
    /\ UNCHANGED <<lsema, lqueue, stack, raising>>
    /\ UNCHANGED <<lvars, avars, rvars>>

\* `with _LIMITERS_LOCKS[service]:` RLock.acquire.
CtxLock(t) ==
    /\ mode = "composite"
    /\ tpc[t] = "lock"
    /\ lock_owner[LimitersLock(Service(t))] \subseteq {t}
    /\ lock_owner' = [lock_owner EXCEPT ![LimitersLock(Service(t))] = {t}]
    /\ lock_count' = [lock_count EXCEPT ![LimitersLock(Service(t))] = @ + 1]
    /\ tpc' = [tpc EXCEPT ![t] = "acquire"]
    /\ UNCHANGED <<lsema, lqueue, stack, raising>>
    /\ UNCHANGED <<lvars, avars, rvars>>

\* `assert num <= limiter.max_rate` holds for the limiter the outer loop is at;
\* `exit_stack.enter_context(limiter)`: limiter.acquire() takes a permit of the
\* gate (it blocks while there is none) and limiter.__exit__ is pushed; the
\* loops `for limiter in limiters: for _ in range(num)` advance.
CtxAcquire(t) ==
    /\ mode = "composite"
    /\ tpc[t] = "acquire"
    /\ LET f == Top(t)
           l == NextLimiter(t)
           last == f.j + 1 = f.num
       IN  /\ f.num <= max_rate[l]
           /\ lsema[l] > 0
           /\ lsema' = [lsema EXCEPT ![l] = @ - 1]
           /\ stack' = ReplaceTop(t, [f EXCEPT !.entered = Append(@, l),
                                              !.i = IF last THEN @ + 1 ELSE @,
                                              !.j = IF last THEN 0 ELSE @ + 1])
           /\ tpc' = [tpc EXCEPT ![t] =
                        IF last /\ f.i = Len(Contexts[f.ctx].limiters)
                        THEN "unlock" ELSE "acquire"]
    /\ UNCHANGED <<lock_owner, lock_count, lqueue, raising>>
    /\ UNCHANGED <<lvars, avars, rvars>>

\* `assert num <= limiter.max_rate` fails for the limiter the outer loop is at:
\* the AssertionError leaves the `with _LIMITERS_LOCKS[service]:` block (the
\* lock is released) and the ExitStack unwinds.
CtxAssertFail(t) ==
    /\ mode = "composite"
    /\ tpc[t] = "acquire"
    /\ Top(t).num > max_rate[NextLimiter(t)]
    /\ lock_count' = [lock_count EXCEPT ![LimitersLock(Service(t))] = @ - 1]
    /\ lock_owner' = [lock_owner EXCEPT ![LimitersLock(Service(t))] =
                        IF lock_count[LimitersLock(Service(t))] = 1 THEN {} ELSE @]
    /\ raising' = [raising EXCEPT ![t] = TRUE]
    /\ tpc' = [tpc EXCEPT ![t] = "exit"]
    /\ UNCHANGED <<lsema, lqueue, stack>>
    /\ UNCHANGED <<lvars, avars, rvars>>

\* Variant of CtxUnlock with the `yield` inside the `with` block: the body runs
\* with the lock held.
CtxYieldInsideLock(t) ==
    /\ mode = "composite"
    /\ tpc[t] = "unlock"
    /\ tpc' = [tpc EXCEPT ![t] = "body"]
    /\ UNCHANGED <<lock_owner, lock_count, lsema, lqueue, stack, raising>>
    /\ UNCHANGED <<lvars, avars, rvars>>

\* The end of the `with _LIMITERS_LOCKS[service]:` block (RLock.release), then
\* `yield`.
CtxUnlock(t) ==
    /\ mode = "composite"
    /\ tpc[t] = "unlock"
    /\ lock_count' = [lock_count EXCEPT ![LimitersLock(Service(t))] = @ - 1]
    /\ lock_owner' = [lock_owner EXCEPT ![LimitersLock(Service(t))] =
                        IF lock_count[LimitersLock(Service(t))] = 1 THEN {} ELSE @]
    /\ tpc' = [tpc EXCEPT ![t] = "body"]
    /\ UNCHANGED <<lsema, lqueue, stack, raising>>
    /\ UNCHANGED <<lvars, avars, rvars>>

\* The protected operation of the innermost call ends; the ExitStack unwinds.
CtxBodyEnd(t) ==
    /\ mode = "composite"
    /\ tpc[t] = "body"
    /\ tpc' = [tpc EXCEPT ![t] = "exit"]
    /\ UNCHANGED <<lock_owner, lock_count, lsema, lqueue, stack, raising>>
    /\ UNCHANGED <<lvars, avars, rvars>>

\* The protected operation of the innermost call raises; the ExitStack unwinds.
CtxBodyRaise(t) ==
    /\ mode = "composite"
    /\ tpc[t] = "body"
    /\ raising' = [raising EXCEPT ![t] = TRUE]
    /\ tpc' = [tpc EXCEPT ![t] = "exit"]
    /\ UNCHANGED <<lock_owner, lock_count, lsema, lqueue, stack>>
    /\ UNCHANGED <<lvars, avars, rvars>>

\* Variant of CtxExit without the ExitStack: the permits are released after the
\* protected section only when no exception is propagating.
CtxExitNoUnwind(t) ==
    /\ mode = "composite"
    /\ tpc[t] = "exit"
    /\ LET f == Top(t)
           n == Len(f.entered)
       IN  IF n > 0 /\ ~raising[t]
           THEN /\ lqueue' = [lqueue EXCEPT ![f.entered[n]] = @ + 1]
                /\ stack' = ReplaceTop(t, [f EXCEPT !.entered = SubSeq(@, 1, n - 1)])
                /\ UNCHANGED <<tpc, raising>>
           ELSE /\ stack' = [stack EXCEPT ![t] = SubSeq(@, 1, Len(@) - 1)]
                /\ tpc' = [tpc EXCEPT ![t] = IF Len(stack[t]) = 1 THEN "idle"
                                             ELSE IF raising[t] THEN "exit" ELSE "body"]
                /\ raising' = [raising EXCEPT ![t] = IF Len(stack[t]) = 1 THEN FALSE ELSE @]
                /\ UNCHANGED lqueue
    /\ UNCHANGED <<lock_owner, lock_count, lsema>>
    /\ UNCHANGED <<lvars, avars, rvars>>

\* ExitStack.__exit__: limiter.__exit__ -> release() of the limiter entered last
\* puts its completion; with none left the call returns to its caller, or the
\* exception goes on into the enclosing protected section.
CtxExit(t) ==
    /\ mode = "composite"
    /\ tpc[t] = "exit"
    /\ LET f == Top(t)
           n == Len(f.entered)
       IN  IF n > 0
           THEN /\ lqueue' = [lqueue EXCEPT ![f.entered[n]] = @ + 1]
                /\ stack' = ReplaceTop(t, [f EXCEPT !.entered = SubSeq(@, 1, n - 1)])
                /\ UNCHANGED <<tpc, raising>>
           ELSE /\ stack' = [stack EXCEPT ![t] = SubSeq(@, 1, Len(@) - 1)]
                /\ tpc' = [tpc EXCEPT ![t] = IF Len(stack[t]) = 1 THEN "idle"
                                             ELSE IF raising[t] THEN "exit" ELSE "body"]
                /\ raising' = [raising EXCEPT ![t] = IF Len(stack[t]) = 1 THEN FALSE ELSE @]
                /\ UNCHANGED lqueue
    /\ UNCHANGED <<lock_owner, lock_count, lsema>>
    /\ UNCHANGED <<lvars, avars, rvars>>

\* The release thread of limiter l returns the permit of its oldest completion,
\* period_s after it was recorded.
CtxWorker(l) ==
    /\ mode = "composite"
    /\ lqueue[l] > 0
    /\ lqueue' = [lqueue EXCEPT ![l] = @ - 1]
    /\ lsema' = [lsema EXCEPT ![l] = @ + 1]
    /\ UNCHANGED <<lock_owner, lock_count, tpc, stack, raising>>
    /\ UNCHANGED <<lvars, avars, rvars>>

\* ------------------------------------------------------------------ join
\* join() is called (once in a run).
Join ==
    /\ mode \in {"thread", "asyncio"}
    /\ UNCHANGED cvars
    /\ jpc = "idle"
    /\ jpc' = "waiters"
    /\ UNCHANGED <<mode, self_max_rate, workers, now, sema, end_time_q, waiters, exc,
                   release_thread, wpc, wnow, wake, pc, timeout, acquired, ts, hits,
                   gate_delta, wait_delta>>
    /\ UNCHANGED avars

\* Thread realization: `while self._waiters: time.sleep(1)` ends.
JoinWaiters ==
    /\ mode = "thread"
    /\ UNCHANGED cvars
    /\ jpc = "waiters"
    /\ waiters = 0
    /\ jpc' = "check"
    /\ UNCHANGED <<mode, self_max_rate, workers, now, sema, end_time_q, waiters, exc,
                   release_thread, wpc, wnow, wake, pc, timeout, acquired, ts, hits,
                   gate_delta, wait_delta>>
    /\ UNCHANGED avars

\* `if self._release_thread: self._end_time_q.put(self.Terminator())`.
JoinPut ==
    /\ mode = "thread"
    /\ UNCHANGED cvars
    /\ jpc = "check"
    /\ IF release_thread # None
       THEN end_time_q' = Append(end_time_q, Terminator) /\ jpc' = "thread"
       ELSE UNCHANGED end_time_q /\ jpc' = "done"
    /\ UNCHANGED <<mode, self_max_rate, workers, now, sema, waiters, exc, release_thread,
                   wpc, wnow, wake, pc, timeout, acquired, ts, hits, gate_delta,
                   wait_delta>>
    /\ UNCHANGED avars

\* `while self._release_thread: time.sleep(1)` ends and join returns.
JoinThread ==
    /\ mode = "thread"
    /\ UNCHANGED cvars
    /\ jpc = "thread"
    /\ release_thread = None
    /\ jpc' = "done"
    /\ UNCHANGED <<mode, self_max_rate, workers, now, sema, end_time_q, waiters, exc,
                   release_thread, wpc, wnow, wake, pc, timeout, acquired, ts, hits,
                   gate_delta, wait_delta>>
    /\ UNCHANGED avars

\* asyncio realization: `while self._waiters: await asyncio.sleep(1)` ends.
\* Normal operation: await the release task if it runs, else cancel
\* _broken_evt_wait_fut (a cancelled future is done). Exceptional operation:
\* `self._release_task.done()` on None raises; a release task started after the
\* failure is cancelled.
AJoinWaiters ==
    /\ mode = "asyncio"
    /\ UNCHANGED cvars
    /\ jpc = "waiters"
    /\ waiters = 0
    /\ IF ~broken_fut_done
       THEN IF release_thread # None /\ wpc \in {"new", "sleep"}
            THEN jpc' = "task" /\ UNCHANGED <<broken_fut_done, wpc>>
            ELSE jpc' = "done" /\ broken_fut_done' = TRUE /\ UNCHANGED wpc
       ELSE IF release_thread = None
            THEN jpc' = "join_error" /\ UNCHANGED <<broken_fut_done, wpc>>
            ELSE /\ jpc' = "done"
                 /\ wpc' = IF wpc = "new" THEN "cancelled_new"
                           ELSE IF wpc = "sleep" THEN "cancelled" ELSE wpc
                 /\ UNCHANGED broken_fut_done
    /\ UNCHANGED <<mode, self_max_rate, workers, now, sema, end_time_q, waiters, exc,
                   release_thread, wnow, wake, pc, timeout, acquired, ts, hits, gate_delta,
                   wait_delta>>
    /\ UNCHANGED <<broken_event, acquire_fut, sema_waiters, cancelling>>

\* `await self._release_task` has returned: `self._broken_evt_wait_fut.cancel()`.
AJoinResume ==
    /\ mode = "asyncio"
    /\ UNCHANGED cvars
    /\ jpc = "resume"
    /\ jpc' = "done"
    /\ broken_fut_done' = TRUE
    /\ UNCHANGED <<mode, self_max_rate, workers, now, sema, end_time_q, waiters, exc,
                   release_thread, wpc, wnow, wake, pc, timeout, acquired, ts, hits,
                   gate_delta, wait_delta>>
    /\ UNCHANGED <<broken_event, acquire_fut, sema_waiters, cancelling>>

\* The cancelled release task runs: CancelledError is raised at its
\* `await asyncio.sleep`, `except BaseException as e` stores it as the worker's
\* exception; a task cancelled before its first step ends outside the `try`.
AWorkerCancelled ==
    /\ mode = "asyncio"
    /\ UNCHANGED cvars
    /\ wpc \in {"cancelled", "cancelled_new"}
    /\ IF wpc = "cancelled"
       THEN /\ exc' = "CancelledError"
            /\ broken_event' = TRUE
            /\ release_thread' = None
       ELSE UNCHANGED <<exc, broken_event, release_thread>>
    /\ workers' = workers - 1
    /\ wpc' = "none"
    /\ wake' = 0
    /\ UNCHANGED <<mode, self_max_rate, jpc, now, sema, end_time_q, waiters, wnow, pc,
                   timeout, acquired, ts, hits, gate_delta, wait_delta>>
    /\ UNCHANGED <<broken_fut_done, acquire_fut, sema_waiters, cancelling>>

JoinNext ==
    \/ Join
    \/ JoinWaiters
    \/ JoinPut
    \/ JoinThread
    \/ AJoinWaiters
    \/ AJoinResume
    \/ AWorkerCancelled

\* ------------------------------------------------- the limiter registry
\* LimiterServices (two of them), the limiter types and the user names.
RegServices == {"gmail", "people"}

Kinds == {"request", "quota"}

Users == {"u1", "u2"}

Pairs == Kinds \X RegServices

\* The order in which the comprehensions go through a table.
PairSeq ==
    << <<"request", "gmail">>, <<"request", "people">>,
       <<"quota", "gmail">>, <<"quota", "people">> >>

\* cache_key = (service_name, user_name).
Keys == RegServices \X Users

\* Calls of get_limiters and of get_per_user_limiter_context in a run.
MaxGetLimitersCalls == 2
MaxPerUserCalls == 3

IndexOf(seq, x) == CHOOSE i \in 1..Len(seq) : seq[i] = x

\* The comprehension of get_limiters over the table tbl: one RateLimiter and
\* one partial per <<kind, service>> of the table (obase, pbase: the objects and
\* partials that exist already).
GlobalPairs(tbl) == SelectSeq(PairSeq, LAMBDA p : p \in tbl)

GlobalObjects(tbl) ==
    [k \in 1..Len(GlobalPairs(tbl)) |->
        [scope |-> "global", kind |-> GlobalPairs(tbl)[k][1],
         service |-> GlobalPairs(tbl)[k][2], user |-> "-"]]

GlobalPartials(tbl, obase) ==
    [k \in 1..Len(GlobalPairs(tbl)) |->
        [limiters |-> <<obase + k>>, service |-> GlobalPairs(tbl)[k][2]]]

GlobalDict(tbl, pbase) ==
    [kind \in Kinds |-> [svc \in RegServices |->
        IF <<kind, svc>> \in tbl THEN pbase + IndexOf(GlobalPairs(tbl), <<kind, svc>>) ELSE 0]]

\* Module state after import; `limiters`, the argument callers pass to
\* get_per_user_limiter_context, is a dict of the shape get_limiters builds over
\* the global table. PER_USER_LIMITERS is the table of the module.
RegInit(tbl) ==
    /\ gl_called = "unbound"
    /\ gl_results = <<>>
    /\ global_tbl = tbl
    /\ user_tbl = {<<"request", "gmail">>, <<"request", "people">>, <<"quota", "gmail">>}
    /\ objects = GlobalObjects(tbl)
    /\ partials = GlobalPartials(tbl, 0)
    /\ glob = GlobalDict(tbl, 0)
    /\ dicts = <<>>
    /\ cache = [k \in Keys |-> 0]
    /\ cache_lock = {}
    /\ rpc = [t \in Threads |-> "idle"]
    /\ rkey = [t \in Threads |-> <<"gmail", "u1">>]
    /\ rret = [t \in Threads |-> 0]
    /\ pu_calls = 0

\* get_limiters(logger): `assert not _GET_LIMITERS_CALLED` reads a global that
\* no statement of the module has bound before the first call.
GetLimiters ==
    /\ mode = "registry"
    /\ Len(gl_results) < MaxGetLimitersCalls
    /\ IF gl_called = "unbound"
       THEN /\ gl_results' = Append(gl_results, "NameError")
            /\ UNCHANGED <<gl_called, objects, partials>>
       ELSE IF gl_called = "True"
       THEN /\ gl_results' = Append(gl_results, "AssertionError")
            /\ UNCHANGED <<gl_called, objects, partials>>
       ELSE /\ objects' = objects \o GlobalObjects(global_tbl)
            /\ partials' = partials \o GlobalPartials(global_tbl, Len(objects))
            /\ gl_called' = "True"
            /\ gl_results' = Append(gl_results, "ok")
    /\ UNCHANGED <<global_tbl, user_tbl, glob, dicts, cache, cache_lock, rpc, rkey, rret, pu_calls>>
    /\ UNCHANGED <<lvars, avars, ctxvars>>

\* Variant of get_limiters_context_with_added_limiters that extends the list of
\* `method` in place.
WithAddedLimitersInPlace(parts, method, limiters) ==
    Append([parts EXCEPT ![method].limiters = @ \o limiters],
           [limiters |-> parts[method].limiters \o limiters,
            service |-> parts[method].service])

\* get_limiters_context_with_added_limiters(method, limiters): the heap of
\* partials with the new partial appended.
WithAddedLimiters(parts, method, limiters) ==
    Append(parts, [limiters |-> parts[method].limiters \o limiters,
                   service |-> parts[method].service])

\* The request (or quota) part of get_per_user_limiter_context: the objects and
\* partials afterwards and the context of the kind (0: None).
UserContext(objs, parts, kind, svc, user) ==
    LET context == glob[kind][svc]
        named == <<kind, svc>> \in user_tbl
        objs2 == IF named
                 THEN Append(objs, [scope |-> "user", kind |-> kind,
                                    service |-> svc, user |-> user])
                 ELSE objs
        named_user_limiters == IF named THEN <<Len(objs2)>> ELSE <<>>
    IN  IF context # 0 /\ named
        THEN [objects |-> objs2,
              partials |-> WithAddedLimiters(parts, context, named_user_limiters),
              ctx |-> Len(parts) + 1]
        ELSE IF named
        THEN [objects |-> objs2,
              partials |-> Append(parts, [limiters |-> named_user_limiters, service |-> svc]),
              ctx |-> Len(parts) + 1]
        ELSE [objects |-> objs2, partials |-> parts, ctx |-> 0]

\* get_per_user_limiter_context(logger, limiters, service_name, user_name) called.
PUCall(t, svc, user) ==
    /\ mode = "registry"
    /\ rpc[t] = "idle"
    /\ pu_calls < MaxPerUserCalls
    /\ pu_calls' = pu_calls + 1
    /\ rkey' = [rkey EXCEPT ![t] = <<svc, user>>]
    /\ rret' = [rret EXCEPT ![t] = 0]
    /\ rpc' = [rpc EXCEPT ![t] = "lock"]
    /\ UNCHANGED <<gl_called, gl_results, global_tbl, user_tbl, objects, partials, glob,
                   dicts, cache, cache_lock>>
    /\ UNCHANGED <<lvars, avars, ctxvars>>

\* Variant of PULock that does not wait for the lock's owner.
PULockNoWait(t) ==
    /\ mode = "registry"
    /\ rpc[t] = "lock"
    /\ cache_lock' = {t}
    /\ rpc' = [rpc EXCEPT ![t] = "lookup"]
    /\ UNCHANGED <<gl_called, gl_results, global_tbl, user_tbl, objects, partials, glob,
                   dicts, cache, rkey, rret, pu_calls>>
    /\ UNCHANGED <<lvars, avars, ctxvars>>

\* `with _PER_USER_LIMITER_LOCK:`.
PULock(t) ==
    /\ mode = "registry"
    /\ rpc[t] = "lock"
    /\ cache_lock = {}
    /\ cache_lock' = {t}
    /\ rpc' = [rpc EXCEPT ![t] = "lookup"]
    /\ UNCHANGED <<gl_called, gl_results, global_tbl, user_tbl, objects, partials, glob,
                   dicts, cache, rkey, rret, pu_calls>>
    /\ UNCHANGED <<lvars, avars, ctxvars>>

\* `return_value = _PER_USER_LIMITER_CACHE.get(cache_key); if return_value:
\* return return_value`.
PULookup(t) ==
    /\ mode = "registry"
    /\ rpc[t] = "lookup"
    /\ IF cache[rkey[t]] # 0
       THEN /\ rret' = [rret EXCEPT ![t] = cache[rkey[t]]]
            /\ cache_lock' = {}
            /\ rpc' = [rpc EXCEPT ![t] = "returned"]
       ELSE /\ rpc' = [rpc EXCEPT ![t] = "build"]
            /\ UNCHANGED <<rret, cache_lock>>
    /\ UNCHANGED <<gl_called, gl_results, global_tbl, user_tbl, objects, partials, glob,
                   dicts, cache, rkey, pu_calls>>
    /\ UNCHANGED <<lvars, avars, ctxvars>>

\* The rest of the `with` block: the request and the quota context are built,
\* the dict is stored in the cache and returned.
PUBuild(t) ==
    /\ mode = "registry"
    /\ rpc[t] = "build"
    /\ LET r == UserContext(objects, partials, "request", rkey[t][1], rkey[t][2])
           q == UserContext(r.objects, r.partials, "quota", rkey[t][1], rkey[t][2])
       IN  /\ objects' = q.objects
           /\ partials' = q.partials
           /\ dicts' = Append(dicts, [request |-> r.ctx, quota |-> q.ctx])
    /\ cache' = [cache EXCEPT ![rkey[t]] = Len(dicts) + 1]
    /\ rret' = [rret EXCEPT ![t] = Len(dicts) + 1]
    /\ cache_lock' = {}
    /\ rpc' = [rpc EXCEPT ![t] = "returned"]
    /\ UNCHANGED <<gl_called, gl_results, global_tbl, user_tbl, glob, rkey, pu_calls>>
    /\ UNCHANGED <<lvars, avars, ctxvars>>

\* The caller has the returned dict.
PUReturn(t) ==
    /\ mode = "registry"
    /\ rpc[t] = "returned"
    /\ rpc' = [rpc EXCEPT ![t] = "idle"]
    /\ UNCHANGED <<gl_called, gl_results, global_tbl, user_tbl, objects, partials, glob,
                   dicts, cache, cache_lock, rkey, rret, pu_calls>>
    /\ UNCHANGED <<lvars, avars, ctxvars>>

\* The limiters a composite acquisition through partial p enters
\* (`for limiter in limiters:` of limiters_context).
Members(p) == {partials[p].limiters[k] : k \in 1..Len(partials[p].limiters)}

InitReg ==
    /\ mode = "registry"
    /\ LimiterInit
    /\ self_max_rate = 1
    /\ CtxInit
    /\ \E tbl \in SUBSET Pairs : RegInit(tbl)

NextReg ==
    \/ GetLimiters
    \/ \E t \in Threads, svc \in RegServices, user \in Users : PUCall(t, svc, user)
    \/ \E t \in Threads : PULock(t)
    \/ \E t \in Threads : PULookup(t)
    \/ \E t \in Threads : PUBuild(t)
    \/ \E t \in Threads : PUReturn(t)

SpecReg == InitReg /\ [][NextReg]_vars

InitCtx ==
    /\ mode = "composite"
    /\ LimiterInit
    /\ self_max_rate = 1
    /\ CtxInit
    /\ RegInit({})

NextCtx ==
    \/ \E t \in Threads, ctx \in ContextNames, num \in 1..MaxNum : CtxCall(t, ctx, num)
    \/ \E t \in Threads : CtxLock(t)
    \/ \E t \in Threads : CtxAcquire(t)
    \/ \E t \in Threads : CtxAssertFail(t)
    \/ \E t \in Threads : CtxUnlock(t)
    \/ \E t \in Threads : CtxBodyEnd(t)
    \/ \E t \in Threads : CtxBodyRaise(t)
    \/ \E t \in Threads : CtxExit(t)
    \/ \E l \in Limiters : CtxWorker(l)

SpecCtx == InitCtx /\ [][NextCtx]_vars

Init ==
    /\ mode \in {"thread", "asyncio"}
    /\ LimiterInit
    /\ CtxInit
    /\ RegInit({})

Next ==
    \/ Tick
    \/ \E c \in Callers : Raised(c)
    \/ ThreadNext
    \/ AsyncNext
    \/ JoinNext

Spec == Init /\ [][Next]_vars

\* The limiter with callers whose tasks can be cancelled while they are
\* suspended in __aenter__.
NextCancel ==
    \/ Next
    \/ \E c \in Callers : ACancel(c)

SpecCancel == Init /\ [][NextCancel]_vars

\* The steps of the release worker of either realization that do not fail.
WorkerStep ==
    \/ WorkerWait
    \/ WorkerOuter
    \/ WorkerInner
    \/ WorkerRelease
    \/ WorkerSleep
    \/ AWorkerStart
    \/ AWorkerRun

\* A limiter that never breaks and is not joined: the callers' steps, the
\* clock and the worker's steps.
NextLive ==
    \/ Tick
    \/ \E c \in Callers : Raised(c)
    \/ \E c \in Callers, t \in BOOLEAN : Acquire(c, t)
    \/ \E c \in Callers : AcquireLocked(c)
    \/ \E c \in Callers : AcquireLoop(c)
    \/ \E c \in Callers : SemaAcquire(c)
    \/ \E c \in Callers : SemaTimeout(c)
    \/ \E c \in Callers : AcquireFinally(c)
    \/ \E c \in Callers : Release(c)
    \/ \E c \in Callers : ReleasePut(c)
    \/ \E c \in Callers : AEnter(c)
    \/ \E c \in Callers : SemaAcquireTask(c)
    \/ \E c \in Callers : AResume(c)
    \/ \E c \in Callers : AExit(c)
    \/ WorkerStep

\* The release thread is a daemon thread the scheduler keeps running, the
\* release task is run by the event loop whenever it is ready, and the clock
\* advances: weak fairness of the worker's steps and of the clock.
SpecLive == Init /\ [][NextLive]_vars /\ WF_vars(WorkerStep) /\ WF_vars(Tick)

\* ------------------------------------------------------------------ claims
\* Callers that own a permit of the gate: the thread realization's `acquired`,
\* the asyncio realization's finished acquire task.
Held(c) == acquired[c] \/ acquire_fut[c] = "done"

HeldCount == Cardinality({c \in Callers : Held(c)})

\* Callers between the return of acquire / __aenter__ and the call of release.
InBody == {c \in Callers : pc[c] = "body"}

\* Completions recorded with a timestamp in lo..hi.
RECURSIVE SumHits(_, _)
SumHits(lo, hi) ==
    IF lo > hi THEN 0
    ELSE (IF lo \in Times THEN hits[lo] ELSE 0) + SumHits(lo + 1, hi)

\* Completions recorded less than a window ago.
Young == SumHits(now - Period + 1, now)

\* The permit the release thread popped and has not yet given to the gate.
InTransit == IF wpc = "release" THEN 1 ELSE 0

\* Callers inside acquire / __aenter__, between _waiters += 1 and _waiters -= 1.
InFlight == {c \in Callers : pc[c] \in {"loop", "sema", "finally", "finally_timeout", "wait"}}

\* C1 Window bound: at every time t the completions recorded with a timestamp
\* c, t - window < c <= t, are at most max_rate, in both realizations.
C1_WindowBound == \A t \in Times : SumHits(t - Period + 1, t) <= self_max_rate

\* A window is full and a later operation completed after it: the limiter made
\* an operation wait for the window.
C1_Witness ==
    \E t \in Times :
        /\ SumHits(t - Period + 1, t) = self_max_rate
        /\ SumHits(t + 1, MaxTime) > 0

\* C2 No double-admit (as claimed): in every state, also after the worker failed,
\* the callers inside the protected section are at most max_rate.
C2_NoDoubleAdmit == Cardinality(InBody) <= self_max_rate

C4_CompletionGatesRelease == sema + HeldCount + Young <= self_max_rate

\* A permit released at a time >= 1 has been returned after its window and is
\* held again, by a caller that was admitted only then.
C4_Witness ==
    /\ hits[0] = 0
    /\ \E t \in 1..MaxTime : hits[t] > 0 /\ now >= t + Period
    /\ HeldCount > 0
    /\ Young = 0

\* C5 Broken propagation (as claimed): once the worker has failed, an acquire
\* that is waiting does not return normally.
C5_BrokenPropagation ==
    [][is_broken => \A c \in Callers :
            pc[c] \in {"loop", "sema", "wait"} => pc'[c] \notin {"finally", "body"}]_vars

\* C6 Deadline purity: when acquire(timeout) of the thread realization ended with
\* TimeoutError, the call took no permit, its _waiters increment is undone, it
\* owns nothing, and the gate, the queue and _waiters account for every other
\* caller exactly.
C6_DeadlinePurity ==
    \A c \in Callers : pc[c] = "timeout_error" =>
        /\ gate_delta[c] = 0
        /\ wait_delta[c] = 0
        /\ ~Held(c)
        /\ waiters = Cardinality(InFlight)
        /\ exc = None =>
               HeldCount + Len(Completions(end_time_q)) + sema + InTransit = self_max_rate

\* A call timed out while another caller was inside release and the release
\* thread was running.
C6_Witness ==
    \E c, d \in Callers :
        /\ pc[c] = "timeout_error"
        /\ pc[d] = "put"
        /\ wpc # "none"

\* Threads between taking the service lock and releasing it: the acquisition
\* phase of limiters_context.
AcqPhase(t) == tpc[t] \in {"acquire", "unlock"}

\* Thread t holds a permit of limiter l (an `entered` limiter of one of its calls).
Holds(t, l) ==
    \E k \in 1..Len(stack[t]) :
        \E m \in 1..Len(stack[t][k].entered) : stack[t][k].entered[m] = l

\* Threads blocked on the lock of service s.
LockWaiters(s) ==
    {t \in Threads : tpc[t] = "lock" /\ LimitersLock(Service(t)) = s /\ t \notin lock_owner[s]}

\* C7 Composite atomicity: at most one caller per service key is in its
\* acquisition phase, so the per-member acquire sequences never interleave.
C7_CompositeAtomicity ==
    \A s \in Services :
        Cardinality({t \in Threads : AcqPhase(t) /\ Service(t) = s}) <= 1

\* One caller has taken some of its permits and is still acquiring while another
\* caller of the same service waits at the lock.
C7_Witness ==
    \E t, u \in Threads :
        /\ t # u
        /\ tpc[t] = "acquire"
        /\ Len(Top(t).entered) > 0
        /\ tpc[u] = "lock"
        /\ Service(u) = Service(t)

\* C8 Deadlock freedom (as claimed): with every active call's num within its
\* members' capacities, no state has a thread waiting for the group lock while
\* the lock's holder waits for a permit that only lock-waiting threads can free.
C8_NoGroupLockDeadlock ==
    ~ \E s \in Services : \E h \in lock_owner[s] :
        /\ tpc[h] = "acquire"
        /\ \A t \in Threads : \A k \in 1..Len(stack[t]) :
                NumFits(stack[t][k].ctx, stack[t][k].num)
        /\ lsema[NextLimiter(h)] = 0
        /\ lqueue[NextLimiter(h)] = 0
        /\ LockWaiters(s) # {}
        /\ \A t \in Threads \ {h} : Holds(t, NextLimiter(h)) => t \in LockWaiters(s)

\* C9 The group lock covers only the acquisition phase: a caller executing the
\* protected body owns no service lock.
C9_LockReleasedBeforeBody ==
    \A t \in Threads : tpc[t] = "body" => \A s \in Services : t \notin lock_owner[s]

\* A caller is in the protected body while another runs its acquisition phase,
\* lock held, on the same service.
C9_Witness ==
    \E t, u \in Threads :
        /\ tpc[t] = "body"
        /\ AcqPhase(u)
        /\ Service(u) = Service(t)
        /\ u \in lock_owner[LimitersLock(Service(u))]

\* C10 Different service keys do not block each other through the lock layer:
\* a lock is owned only by a caller acquiring for that lock's service, and a
\* caller at the lock of a service no other caller is acquiring for can take it.
C10_ServicesIndependent ==
    /\ \A s \in Services : \A o \in lock_owner[s] :
            AcqPhase(o) /\ LimitersLock(Service(o)) = s
    /\ \A t \in Threads :
            (/\ tpc[t] = "lock"
             /\ \A u \in Threads \ {t} : ~(AcqPhase(u) /\ Service(u) = Service(t)))
            => ENABLED CtxLock(t)

\* A caller holds the lock of one service, blocked on a permit, while a caller of
\* another service has taken that service's lock and all its permits.
C10_Witness ==
    \E t, u \in Threads :
        /\ tpc[t] = "acquire"
        /\ lsema[NextLimiter(t)] = 0
        /\ tpc[u] = "unlock"
        /\ Service(u) # Service(t)

\* The permits of limiter l the active limiters_context calls have entered and
\* not yet released.
RECURSIVE CountIn(_, _)
CountIn(seq, l) ==
    IF seq = <<>> THEN 0
    ELSE (IF Head(seq) = l THEN 1 ELSE 0) + CountIn(Tail(seq), l)

RECURSIVE EnteredIn(_, _)
EnteredIn(frames, l) ==
    IF frames = <<>> THEN 0
    ELSE CountIn(Head(frames).entered, l) + EnteredIn(Tail(frames), l)

RECURSIVE SumEntered(_, _)
SumEntered(S, l) ==
    IF S = {} THEN 0
    ELSE LET t == CHOOSE x \in S : TRUE
         IN  EnteredIn(stack[t], l) + SumEntered(S \ {t}, l)

\* C11 Release exactly once: every permit a limiters_context call took is either
\* still entered by an active call or has exactly one completion record (in the
\* limiter's queue until the worker frees it); a call that has returned or
\* raised has nothing entered.
C11_ReleasedExactlyOnce ==
    /\ \A l \in Limiters : lsema[l] + lqueue[l] + SumEntered(Threads, l) = max_rate[l]
    /\ \A t \in Threads : tpc[t] = "idle" => stack[t] = <<>> /\ ~raising[t]

\* A call failed at its second member after taking permits of the first, and
\* its unwinding has released them all.
C11_Witness ==
    \E t \in Threads :
        /\ raising[t]
        /\ tpc[t] = "exit"
        /\ Top(t).i > 1
        /\ Top(t).entered = <<>>
        /\ lqueue[Contexts[Top(t).ctx].limiters[1]] = Top(t).num

\* C18 Fail fast on over-sized requests (as claimed): a call whose num exceeds
\* the capacity of some member has no permit of any member.
C18_FailFast ==
    \A t \in Threads : \A k \in 1..Len(stack[t]) :
        ~NumFits(stack[t][k].ctx, stack[t][k].num) => stack[t][k].entered = <<>>

\* The RateLimiter objects constructed for a user's limit of a kind on a service.
UserObjects(kind, svc, user) ==
    {i \in 1..Len(objects) :
        objects[i] = [scope |-> "user", kind |-> kind, service |-> svc, user |-> user]}

\* The limiters of a context, each described by what it was constructed for.
Described(ctx) ==
    IF ctx = 0 THEN <<>>
    ELSE [k \in 1..Len(partials[ctx].limiters) |-> objects[partials[ctx].limiters[k]]]

\* The service's global limiters of the kind followed by the user's.
Expected(kind, svc, user) ==
    (IF <<kind, svc>> \in global_tbl
     THEN <<[scope |-> "global", kind |-> kind, service |-> svc, user |-> "-"]>>
     ELSE <<>>)
    \o (IF <<kind, svc>> \in user_tbl
        THEN <<[scope |-> "user", kind |-> kind, service |-> svc, user |-> user]>>
        ELSE <<>>)

\* C12 Init-once registry (as claimed): the first get_limiters call succeeds and
\* every later call fails on the single-call assertion.
C12_InitOnce ==
    /\ Len(gl_results) >= 1 => gl_results[1] = "ok"
    /\ \A k \in 2..Len(gl_results) : gl_results[k] = "AssertionError"

\* C13 Per-principal memoization: a key's limiters and dict are constructed at
\* most once, every call returns the dict cached under its key, the dicts of
\* different keys differ, and a key's dict holds only contexts of its service
\* and user limiters of its user.
C13_Memoized ==
    /\ \A key \in Keys : \A kind \in Kinds :
            Cardinality(UserObjects(kind, key[1], key[2])) <= 1
    /\ Len(dicts) = Cardinality({key \in Keys : cache[key] # 0})
    /\ \A k1, k2 \in Keys : k1 # k2 /\ cache[k1] # 0 => cache[k1] # cache[k2]
    /\ \A t \in Threads : rpc[t] = "returned" => rret[t] # 0 /\ rret[t] = cache[rkey[t]]
    /\ \A key \in Keys : \A kind \in Kinds :
            cache[key] # 0 /\ dicts[cache[key]][kind] # 0 =>
                /\ partials[dicts[cache[key]][kind]].service = key[1]
                /\ \A l \in Members(dicts[cache[key]][kind]) :
                        objects[l].scope = "user" => objects[l].user = key[2]

\* Two threads have the same dict from calls with the same key, and another
\* key is cached as well.
C13_Witness ==
    \E t, u \in Threads :
        /\ t # u
        /\ rpc[t] = "returned" /\ rpc[u] = "returned"
        /\ rkey[t] = rkey[u]
        /\ rret[t] # 0 /\ rret[t] = rret[u]
        /\ \E key \in Keys : key # rkey[t] /\ cache[key] # 0

\* C14 Overlay is the union (as claimed): every entry of a cached dict lists the
\* service's global limiters of the kind followed by the user's, and is None
\* only when there is neither.
C14_OverlayIsUnion ==
    \A key \in Keys : cache[key] # 0 =>
        \A kind \in Kinds :
            Described(dicts[cache[key]][kind]) = Expected(kind, key[1], key[2])

\* C15 Extending is a pure transform: the partial get_limiters_context_with_
\* added_limiters was given keeps its list and service, so an acquisition
\* through it enters only its own limiter; the new partial is another object
\* with the original's list followed by the added limiter and the same service.
C15_ExtendIsPure ==
    \A kind \in Kinds : \A svc \in RegServices :
        LET g == glob[kind][svc]
        IN  g # 0 =>
            /\ partials[g] = [limiters |-> <<g>>, service |-> svc]
            /\ Members(g) = {g}
            /\ \A user \in Users :
                  LET d == cache[<<svc, user>>]
                      c == IF d = 0 THEN 0 ELSE dicts[d][kind]
                  IN  c # 0 =>
                        /\ c # g
                        /\ Len(partials[c].limiters) = Len(partials[g].limiters) + 1
                        /\ SubSeq(partials[c].limiters, 1, Len(partials[g].limiters))
                              = partials[g].limiters
                        /\ objects[partials[c].limiters[Len(partials[c].limiters)]].scope
                              = "user"
                        /\ partials[c].service = partials[g].service

\* One global partial has been extended for two users.
C15_Witness ==
    \E kind \in Kinds : \E svc \in RegServices :
        /\ glob[kind][svc] # 0
        /\ \A user \in Users :
              /\ cache[<<svc, user>>] # 0
              /\ dicts[cache[<<svc, user>>]][kind] # 0


\* C16 Broken is terminal (as claimed): once is_broken is true it stays true and
\* the stored cause (_release_worker_exception) is the same in every later
\* state, whatever acquire, release, worker or join step is taken.
C16_BrokenIsTerminal == [][is_broken => is_broken' /\ exc' = exc]_vars

\* No caller is inside acquire, no caller holds a permit, no completion is
\* queued and every permit is free.
Drained ==
    /\ InFlight = {}
    /\ HeldCount = 0
    /\ Completions(end_time_q) = <<>>
    /\ sema = self_max_rate

\* C17 Drain (as claimed): join on a healthy limiter returns only in a state
\* where no caller is blocked in acquire, none holds a permit, the queue is
\* flushed and every permit is free.
C17_Drain == [][(jpc # "done" /\ jpc' = "done" /\ ~is_broken') => Drained']_vars

\* C20 FIFO completion order (as claimed): in every state the timestamps of
\* the completion queue are non-decreasing from head to tail.
C20_FifoOrder ==
    LET q == Completions(end_time_q)
    IN  \A i, j \in 1..Len(q) : i <= j => q[i] <= q[j]

\* The completions of the queue whose window ends by the last clock value.
Due(q) == SelectSeq(q, LAMBDA x : x # Terminator /\ x + Period <= MaxTime)

\* Every entry of the queue is a completion whose window ends by the last
\* clock value.
AllDue == end_time_q # <<>> /\ Len(Due(end_time_q)) = Len(end_time_q)

\* The worker, scheduled late, sleeps until a time after the last clock value.
SleepsPastClock == wpc = "sleep" /\ wake > MaxTime

\* C19 Eventual permit return: under fairness of the worker, on a limiter that
\* never breaks and is not joined, the completions recorded by release are
\* eventually popped and their permits given to the gate (or the worker has set
\* its next wake-up, which the bounded clock does not reach); and when no caller
\* uses the limiter meanwhile, all max_rate permits are free again.
C19_EventualPermitReturn ==
    /\ AllDue ~> ((Due(end_time_q) = <<>> /\ InTransit = 0) \/ SleepsPastClock)
    /\ (AllDue /\ \A c \in Callers : pc[c] = "idle")
           ~> \/ sema = self_max_rate
              \/ \E c \in Callers : pc[c] # "idle"
              \/ SleepsPastClock

\* A caller that was blocked on the gate is inside the protected section
\* after the worker returned the permit of a completion recorded at time 0.
C19_Witness ==
    /\ hits[0] = self_max_rate
    /\ end_time_q = <<>>
    /\ InTransit = 0
    /\ now >= Period
    /\ \E c \in Callers : pc[c] = "body" /\ Held(c)

\* C21 Single worker: in every state at most one release thread / task has been
\* started and not ended, it is the one the handle refers to, and without a
\* handle no worker runs.
C21_SingleWorker ==
    /\ workers <= 1
    /\ workers = 1 <=> wpc # "none"
    /\ release_thread = None => workers = 0

\* After join returned and the old release thread ended, an acquire has lazily
\* started a new one.
C21_Witness ==
    /\ mode = "thread"
    /\ jpc = "done"
    /\ workers = 1
    /\ wpc = "wait"

\* C22 Broken beats deadline (as claimed): an acquire with a deadline that is
\* waiting for a permit when the limiter is broken does not end with
\* TimeoutError.
C22_BrokenBeatsDeadline ==
    [][\A c \in Callers :
          (is_broken /\ timeout[c] /\ pc[c] \in {"loop", "sema"})
              => pc'[c] # "finally_timeout"]_vars

\* C23 Drain of a broken limiter (as claimed): join on a limiter whose worker
\* has failed, with no waiters, raises no error.
C23_JoinBrokenNoError ==
    [][(is_broken /\ jpc = "waiters") => jpc' # "join_error"]_vars

\* C24 Cancellation without side effects (as claimed): after a caller cancelled
\* in __aenter__ has unwound, on a limiter that is not broken and was not
\* joined, held + queued + free permits equal max_rate and the call's _waiters
\* increment is undone.
C24_CancelNoSideEffects ==
    \A c \in Callers :
        (pc[c] = "cancelled_error" /\ mode = "asyncio" /\ exc = None /\ ~broken_fut_done) =>
            /\ wait_delta[c] = 0
            /\ waiters = Cardinality(InFlight)
            /\ cancelling = 0 =>
                   HeldCount + Len(Completions(end_time_q)) + sema = self_max_rate

\* C25 Usable after join (as claimed): after join returned on a healthy
\* limiter, an acquire does not raise the Broken error, and the release thread
\* does not end at a leftover Terminator while completions are queued.
C25_UsableAfterJoin ==
    [][(jpc = "done" /\ ~is_broken) =>
          /\ \A c \in Callers : pc[c] = "wait" => pc'[c] # "broken_error"
          /\ (wpc = "inner" /\ Completions(end_time_q) # <<>> /\ ~is_broken')
                 => wpc' # "finally"]_vars

\* C26 Global limits span principals (as claimed): every cached per-user dict
\* has, for each kind the service has a global context of, a context whose
\* limiters include the very RateLimiter objects of that global context.
C26_GlobalShared ==
    \A key \in Keys : cache[key] # 0 =>
        \A kind \in Kinds : glob[kind][key[1]] # 0 =>
            /\ dicts[cache[key]][kind] # 0
            /\ Members(glob[kind][key[1]]) \subseteq Members(dicts[cache[key]][kind])

====
